---------------------------- MODULE Spec2Model ----------------------------
(***************************************************************************)
(* Model of the subtitle core of auto-subtitle:                            *)
(*   - the cue segmenter      (src/app/lib/transcription.ts)               *)
(*   - the subtitle codec     (src/app/lib/subtitle-converter.ts and the   *)
(*                             editor copy in SubtitleEditor.tsx)          *)
(*                                                                         *)
(* JavaScript strings are TLA+ strings; a character is a string of length  *)
(* one.  JavaScript numbers that hold times are modelled as exact          *)
(* rationals <<n, d>> (d > 0, lowest terms), so the model computes what    *)
(* the code computes up to IEEE-754 rounding.                              *)
(***************************************************************************)
EXTENDS Integers, Sequences, FiniteSets, TLC

(***************************************************************************)
(* Strings                                                                 *)
(***************************************************************************)
At(s, i) == SubSeq(s, i, i)

\* Characters removed by String.prototype.trim and matched by \s.
Whitespace == {" ", "\t", "\n"}

\* Characters matched by \w (those the pools use).
WordChars ==
    {At("abcdefghijklmnopqrstuvwxyzABCDEFGHIJKLMNOPQRSTUVWXYZ0123456789_", i) : i \in 1..63}

RECURSIVE TrimStart(_)
TrimStart(s) ==
    IF Len(s) > 0 /\ At(s, 1) \in Whitespace THEN TrimStart(Tail(s)) ELSE s

RECURSIVE TrimEnd(_)
TrimEnd(s) ==
    IF Len(s) > 0 /\ At(s, Len(s)) \in Whitespace
    THEN TrimEnd(SubSeq(s, 1, Len(s) - 1)) ELSE s

\* String.prototype.trim
Trim(s) == TrimEnd(TrimStart(s))

\* s.startsWith(pat, i) with i 1-based
StartsWithAt(s, pat, i) ==
    i + Len(pat) - 1 <= Len(s) /\ SubSeq(s, i, i + Len(pat) - 1) = pat

Min(S) == CHOOSE x \in S : \A y \in S : x <= y

\* s.indexOf(pat) from position i, 1-based; 0 when absent
IndexOfFrom(s, pat, i) ==
    LET hits == {k \in i..(Len(s) - Len(pat) + 1) : StartsWithAt(s, pat, k)}
    IN  IF hits = {} THEN 0 ELSE Min(hits)

\* String.prototype.includes
Includes(s, pat) == IndexOfFrom(s, pat, 1) > 0

\* The pieces of s from position i on, hits being the positions where sep
\* occurs in s: the next separator is the first occurrence at or after i
RECURSIVE SplitAt(_, _, _, _)
SplitAt(s, sep, hits, i) ==
    LET later == {h \in hits : h >= i}
    IN  IF later = {} THEN <<SubSeq(s, i, Len(s))>>
        ELSE <<SubSeq(s, i, Min(later) - 1)>>
             \o SplitAt(s, sep, hits, Min(later) + Len(sep))

\* String.prototype.split(sep) for a non-empty separator: always at least one
\* piece, empty pieces kept.
Split(s, sep) ==
    SplitAt(s, sep, {k \in 1..(Len(s) - Len(sep) + 1) : StartsWithAt(s, sep, k)}, 1)

\* Array.prototype.join
RECURSIVE Join(_, _)
Join(parts, sep) ==
    IF Len(parts) = 0 THEN ""
    ELSE IF Len(parts) = 1 THEN parts[1]
    ELSE parts[1] \o sep \o Join(Tail(parts), sep)

Digit(n) == At("0123456789", n + 1)

\* Number.prototype.toString for a natural number
RECURSIVE NatToString(_)
NatToString(n) ==
    IF n < 10 THEN Digit(n) ELSE NatToString(n \div 10) \o Digit(n % 10)

\* String.prototype.padStart(width, '0')
RECURSIVE PadStart(_, _)
PadStart(s, width) == IF Len(s) >= width THEN s ELSE PadStart("0" \o s, width)

(***************************************************************************)
(* Exact rational arithmetic for the times                                 *)
(***************************************************************************)
RECURSIVE Gcd(_, _)
Gcd(a, b) == IF b = 0 THEN a ELSE Gcd(b, a % b)

Abs(a) == IF a < 0 THEN -a ELSE a

Rat(n, d) ==
    LET g == Gcd(Abs(n), Abs(d))
        sg == IF d < 0 THEN -1 ELSE 1
    IN  <<sg * (n \div g), sg * (d \div g)>>

RInt(k) == <<k, 1>>
RAdd(a, b) == Rat(a[1] * b[2] + b[1] * a[2], a[2] * b[2])
RSub(a, b) == Rat(a[1] * b[2] - b[1] * a[2], a[2] * b[2])
RMulInt(a, k) == Rat(a[1] * k, a[2])
RDivInt(a, k) == Rat(a[1], a[2] * k)
RLess(a, b) == a[1] * b[2] < b[1] * a[2]
RLeq(a, b) == a[1] * b[2] <= b[1] * a[2]
\* Math.floor
RFloor(a) == a[1] \div a[2]
\* a % k for a >= 0 and an integer k > 0
RModInt(a, k) == RSub(a, RInt(k * RFloor(RDivInt(a, k))))


(***************************************************************************)
(* Cue segmenter: src/app/lib/transcription.ts                             *)
(***************************************************************************)
\* text.length <= 70 keeps a segment unsplit
KeepMaxLength == 70
\* duration < 4.0 keeps a segment unsplit
KeepMaxDuration == 4
maxCharsPerLine == 60
chunkSize == 7
\* the fallback's assumed total duration
BasicTotal == 100

ToLowerCase(c) == IF c = "A" THEN "a" ELSE IF c = "P" THEN "p" ELSE c

\* Length of the match of /\b([AaPp])\.?m\./ that starts at position i of s, 0
\* when there is none.
AmPmMatchLen(s, i) ==
    IF At(s, i) \in {"A", "a", "P", "p"} /\ (i = 1 \/ At(s, i - 1) \notin WordChars)
    THEN IF StartsWithAt(s, ".m.", i + 1) THEN 4
         ELSE IF StartsWithAt(s, "m.", i + 1) THEN 3
         ELSE 0
    ELSE 0

\* The rest of the replacement from position i on: matches are taken left to
\* right and do not overlap.
RECURSIVE SanitizeFrom(_, _)
SanitizeFrom(s, i) ==
    LET hits == {k \in i..Len(s) : AmPmMatchLen(s, k) > 0}
    IN  IF hits = {} THEN SubSeq(s, i, Len(s))
        ELSE LET k == Min(hits)
             IN  SubSeq(s, i, k - 1) \o ToLowerCase(At(s, k)) \o "m"
                 \o SanitizeFrom(s, k + AmPmMatchLen(s, k))

\* text.replace(/\b([AaPp])\.?m\./g, (_, p) => `${p.toLowerCase()}m`)
Sanitize(text) == SanitizeFrom(text, 1)

Punctuation == {".", "!", "?", ","}

RECURSIVE SkipWhitespace(_, _)
SkipWhitespace(s, i) ==
    IF i <= Len(s) /\ At(s, i) \in Whitespace THEN SkipWhitespace(s, i + 1) ELSE i

\* The pieces of s from position i on: a separator is a maximal run of
\* whitespace that directly follows a punctuation mark.
RECURSIVE SplitPunctFrom(_, _)
SplitPunctFrom(s, i) ==
    LET hits == {k \in (IF i > 2 THEN i ELSE 2)..Len(s) :
                    At(s, k) \in Whitespace /\ At(s, k - 1) \in Punctuation}
    IN  IF hits = {} THEN <<SubSeq(s, i, Len(s))>>
        ELSE LET k == Min(hits)
             IN  <<SubSeq(s, i, k - 1)>> \o SplitPunctFrom(s, SkipWhitespace(s, k))

\* sanitized.split(/(?<=[.!?,])\s+/)
SplitPunct(s) == SplitPunctFrom(s, 1)

\* legacyCloseLine with the slip of starting the next line empty: the word that
\* did not fit is dropped
legacyCloseLineDropsWord(st, word, timePerCharacter) ==
    LET chunkDuration == RMulInt(timePerCharacter, st.charCount)
        endTime == RAdd(st.currentStart, chunkDuration)
    IN  [result |-> Append(st.result,
                           [text |-> Trim(st.currentChunk),
                            start |-> st.currentStart, end |-> endTime]),
         currentStart |-> endTime,
         currentChunk |-> "",
         charCount |-> 0]

\* legacyChunking, the branch that closes the current line before `word`
legacyCloseLine(st, word, timePerCharacter) ==
    LET chunkDuration == RMulInt(timePerCharacter, st.charCount)
        endTime == RAdd(st.currentStart, chunkDuration)
    IN  [result |-> Append(st.result,
                           [text |-> Trim(st.currentChunk),
                            start |-> st.currentStart, end |-> endTime]),
         currentStart |-> endTime,
         currentChunk |-> word,
         charCount |-> Len(word)]

\* legacyChunking, the branch that appends `word` to the current line
legacyAppendWord(st, word) ==
    LET chunk == st.currentChunk \o (IF st.currentChunk # "" THEN " " ELSE "") \o word
    IN  [st EXCEPT !.currentChunk = chunk,
                   !.charCount = @ + (IF chunk # "" THEN 1 ELSE 0) + Len(word)]

\* legacyFlush with the slip of ending the last line at the start time
legacyFlushAtStart(st, startTime, duration) ==
    IF st.currentChunk # ""
    THEN [st EXCEPT !.result = Append(@, [text |-> Trim(st.currentChunk),
                                          start |-> st.currentStart,
                                          end |-> startTime])]
    ELSE st

\* legacyChunking, the final flushing after the last word
legacyFlush(st, startTime, duration) ==
    IF st.currentChunk # ""
    THEN [st EXCEPT !.result = Append(@, [text |-> Trim(st.currentChunk),
                                          start |-> st.currentStart,
                                          end |-> RAdd(startTime, duration)])]
    ELSE st

RECURSIVE legacyLoop(_, _, _, _, _, _)
legacyLoop(words, idx, st, timePerCharacter, startTime, duration) ==
    IF idx > Len(words) THEN st.result
    ELSE LET word == words[idx]
             st1 == IF st.currentChunk # ""
                       /\ st.charCount + Len(word) + 1 > maxCharsPerLine
                    THEN legacyCloseLine(st, word, timePerCharacter)
                    ELSE legacyAppendWord(st, word)
             st2 == IF idx = Len(words) THEN legacyFlush(st1, startTime, duration)
                    ELSE st1
         IN  legacyLoop(words, idx + 1, st2, timePerCharacter, startTime, duration)

legacyChunking(text, duration, startTime) ==
    legacyLoop(Split(text, " "), 1,
               [result |-> <<>>, currentChunk |-> "", currentStart |-> startTime,
                charCount |-> 0],
               RDivInt(duration, Len(text)), startTime, duration)

\* splitSentence with the slip of not moving currentStart past the lines of a
\* word-wrapped sentence
splitSentenceKeepsStart(st, sentence, timePerCharacter) ==
    LET trimmed == Trim(sentence)
    IN  IF trimmed = "" THEN st
        ELSE IF Len(trimmed) > maxCharsPerLine
        THEN LET subChunks == legacyChunking(trimmed,
                                             RMulInt(timePerCharacter, Len(trimmed)),
                                             st.currentStart)
             IN  [chunks |-> st.chunks \o subChunks,
                  currentStart |-> st.currentStart]
        ELSE LET endTime == RAdd(st.currentStart, RMulInt(timePerCharacter, Len(trimmed)))
             IN  [chunks |-> Append(st.chunks, [text |-> trimmed,
                                                start |-> st.currentStart,
                                                end |-> endTime]),
                  currentStart |-> endTime]

\* splitTextIntoChunks, one iteration of rawChunks.forEach
splitSentence(st, sentence, timePerCharacter) ==
    LET trimmed == Trim(sentence)
    IN  IF trimmed = "" THEN st
        ELSE IF Len(trimmed) > maxCharsPerLine
        THEN LET subChunks == legacyChunking(trimmed,
                                             RMulInt(timePerCharacter, Len(trimmed)),
                                             st.currentStart)
             IN  [chunks |-> st.chunks \o subChunks,
                  currentStart |-> IF Len(subChunks) > 0
                                   THEN subChunks[Len(subChunks)].end
                                   ELSE st.currentStart]
        ELSE LET endTime == RAdd(st.currentStart, RMulInt(timePerCharacter, Len(trimmed)))
             IN  [chunks |-> Append(st.chunks, [text |-> trimmed,
                                                start |-> st.currentStart,
                                                end |-> endTime]),
                  currentStart |-> endTime]

RECURSIVE splitLoop(_, _, _, _)
splitLoop(rawChunks, k, st, timePerCharacter) ==
    IF k > Len(rawChunks) THEN st.chunks
    ELSE splitLoop(rawChunks, k + 1,
                   splitSentence(st, rawChunks[k], timePerCharacter), timePerCharacter)

splitTextIntoChunks(text, duration, startTime) ==
    LET sanitized == Sanitize(text)
        rawChunks == SplitPunct(sanitized)
    IN  IF Len(rawChunks) = 1
        THEN legacyChunking(sanitized, duration, startTime)
        ELSE splitLoop(rawChunks, 1, [chunks |-> <<>>, currentStart |-> startTime],
                       RDivInt(duration, Len(sanitized)))

\* formatVTTSegment.formatTime, for seconds >= 0
formatTime(seconds) ==
    LET hours == RFloor(RDivInt(seconds, 3600))
        minutes == RFloor(RDivInt(RModInt(seconds, 3600), 60))
        secs == RFloor(RModInt(seconds, 60))
        ms == RFloor(RMulInt(RModInt(seconds, 1), 1000))
    IN  PadStart(NatToString(hours), 2) \o ":" \o PadStart(NatToString(minutes), 2)
        \o ":" \o PadStart(NatToString(secs), 2) \o "." \o PadStart(NatToString(ms), 3)

formatVTTSegment(index, start, end, text) ==
    NatToString(index) \o "\n" \o formatTime(start) \o " --> " \o formatTime(end)
    \o "\n" \o text \o "\n\n"


\* createBasicVTT: the blocks for words[i..], i 0-based, in steps of chunkSize
RECURSIVE basicLoop(_, _, _)
basicLoop(words, i, index) ==
    IF i >= Len(words) THEN <<>>
    ELSE LET last == IF i + chunkSize < Len(words) THEN i + chunkSize ELSE Len(words)
             chunk == Join(SubSeq(words, i + 1, last), " ")
             startTime == Rat(i * BasicTotal, Len(words))
             scaled == Rat((i + chunkSize) * BasicTotal, Len(words))
             endTime == IF RLess(scaled, RInt(BasicTotal)) THEN scaled ELSE RInt(BasicTotal)
         IN  <<[index |-> index, start |-> startTime, end |-> endTime, text |-> chunk]>>
             \o basicLoop(words, i + chunkSize, index + 1)

\* The formatVTTSegment calls createBasicVTT makes, in order.
createBasicVTT(text) == basicLoop(Split(text, " "), 0, 1)

(***************************************************************************)
(* State                                                                   *)
(***************************************************************************)
VARIABLES
    \* createOptimizedVTT
    segments,       \* argument: the transcript segments
    fullText,       \* argument: the full transcription text
    pc,             \* "start", "loop" (inside segments.forEach), "done"
    segIdx,         \* position of segments.forEach, 1-based
    segmentIndex,   \* let segmentIndex
    vtt,            \* let vtt, the document built so far
    cues,           \* the formatVTTSegment calls made so far, with their results
    path,           \* per segment visited: "skip", "keep" or "split"
    \* parseVTT / convertToVTT / generateVTT
    parser,         \* which copy runs: "converter" or "editor"
    input,          \* the Cue[] handed to the serializer (<<>> for a loaded document)
    doc,            \* vttContent
    lines,          \* vttContent.split('\n')
    li,             \* the for loop's i, 1-based
    state,          \* 0: id or timestamp, 1: timestamp, 2: text
    currentEntry,   \* Partial<SubtitleEntry>, absent fields are None
    textBuffer,
    textSrc,        \* history: the line each element of textBuffer was read from
    entries,
    cpc,            \* "idle", "parse", "done"
    pendingSrc,     \* history: lines the pending entry was read from
    emitLog,        \* history: per emitted entry, where it came from
    visits,         \* history: per line, how often the loop body ran on it
    \* downloadSubtitles
    download,       \* None, or the file offered: [format, content]
    \* SubtitleEditor component state
    subtitles,      \* useState<SubtitleEntry[]>
    editingId,      \* useState<string | null>, null is None
    editForm,       \* useState({startTime, endTime, text})
    now,            \* the clock Date.now() reads, in milliseconds
    opCount,        \* number of editor operations so far
    opened,         \* history: position of the cue the edit form was opened on
    lastOp,         \* history: the last editor operation and the list before it
    \* the parser copies run on one document
    results,        \* history: per copy that has returned, its name and its cue list
    \* api/subtitles/save
    requests,       \* the POST requests being handled: [pc, vttContent, timestamp, ...]
    files           \* public/uploads: file name -> content

segVars == <<segments, fullText, pc, segIdx, segmentIndex, vtt, cues, path>>
codecVars == <<parser, input, doc, lines, li, state, currentEntry, textBuffer, textSrc,
               entries, cpc, pendingSrc, emitLog, visits>>
appVars == <<download, subtitles, editingId, editForm, now, opCount, opened, lastOp>>
copyVars == <<results>>
saveVars == <<requests, files>>
vars == <<segVars, codecVars, appVars, copyVars, saveVars>>

None == <<>>
Some(x) == <<x>>

SeqsUpTo(S, n) == UNION {[1..k -> S] : k \in 0..n}

(***************************************************************************)
(* Inputs of the segmenter                                                 *)
(***************************************************************************)
MaxSegs == 2

TextExample ==
    "This is a very long sentence that definitely exceeds seventy characters in total length, testing the splitter."
TextNoPunct ==
    "the quick brown fox jumps over the lazy dog and then it runs  far away into the deep dark forest"
TextUpperPM ==
    "We will meet at 3 P.M. today and then once more tomorrow at 9 a.m. in the big room"
TextMeeting == "Meeting at 3 p.m. today"

TextPool == {"", "Hi there.", TextMeeting, TextExample, TextNoPunct, TextUpperPM}

\* <<start, end>> in seconds
TimePool == {<<RInt(0), RInt(10)>>, <<Rat(3, 2), Rat(7, 2)>>,
             <<RInt(1), RInt(11)>>, <<RInt(5), RInt(3)>>}

\* Segments that follow a segment ending at 11 s
LaterSegments ==
    {[start |-> RInt(11), end |-> RInt(21), text |-> x] : x \in {"Hi there.", TextExample}}

SegmentPool ==
    {[start |-> t[1], end |-> t[2], text |-> x] : t \in TimePool, x \in TextPool}
    \cup LaterSegments

FullTextPool == {"", "one two three",
                 "a b c d e f g h i j k l m n o",
                 "a b c d e f  g h"}

\* splitTextIntoChunks(text, duration, startTime) as createOptimizedVTT calls it
\* for a segment (line 85)
SplitCall(segment) ==
    splitTextIntoChunks(Trim(segment.text), RSub(segment.end, segment.start),
                        segment.start)

\* SplitCall tabulated over the pool, so that it is evaluated once per segment
SplitMemo == {<<g, SplitCall(g)>> : g \in {x \in SegmentPool : x.text # ""}}
ChunksOf(segment) == (CHOOSE p \in SplitMemo : p[1] = segment)[2]

\* The sanitized text of a segment (splitTextIntoChunks line 127 on the text
\* that line 78 trimmed), tabulated over the pool in the same way
SanitizedMemo == {<<g, Sanitize(Trim(g.text))>> : g \in SegmentPool}
SanitizedOf(segment) == (CHOOSE p \in SanitizedMemo : p[1] = segment)[2]

EmptyEntry == [id |-> None, startTime |-> None, endTime |-> None]
NoSrc == [label |-> 0, ts |-> 0]
\* useState({ startTime: "", endTime: "", text: "" })
EmptyForm == [startTime |-> "", endTime |-> "", text |-> ""]
NoOp == [op |-> "none", pos |-> 0, before |-> <<>>]

\* No save request has been received, public/uploads is empty
IdleServer == requests = <<>> /\ files = <<>>

IdleApp ==
    /\ download = None /\ subtitles = <<>> /\ editingId = None
    /\ editForm = EmptyForm /\ now = 0 /\ opCount = 0 /\ opened = 0 /\ lastOp = NoOp

IdleCodec ==
    /\ parser = "converter" /\ input = <<>> /\ doc = "" /\ lines = <<>> /\ li = 1
    /\ state = 0 /\ currentEntry = EmptyEntry
    /\ textBuffer = <<>> /\ textSrc = <<>> /\ entries = <<>> /\ cpc = "idle"
    /\ pendingSrc = NoSrc /\ emitLog = <<>> /\ visits = <<>>

InitSeg ==
    /\ segments \in SeqsUpTo(SegmentPool, MaxSegs)
    /\ fullText \in (IF segments = <<>> THEN FullTextPool ELSE {""})
    /\ pc = "start" /\ segIdx = 1 /\ segmentIndex = 1
    /\ vtt = "" /\ cues = <<>> /\ path = <<>>
    /\ IdleCodec
    /\ IdleApp
    /\ results = <<>> /\ IdleServer

\* The record of one formatVTTSegment call
CueOf(seg, index, start, end, text) ==
    [seg |-> seg, index |-> index, start |-> start, end |-> end, text |-> text,
     startTime |-> formatTime(start), endTime |-> formatTime(end)]

RECURSIVE Blocks(_)
Blocks(cs) ==
    IF cs = <<>> THEN ""
    ELSE formatVTTSegment(cs[1].index, cs[1].start, cs[1].end, cs[1].text)
         \o Blocks(Tail(cs))

\* createOptimizedVTT, lines 64-67: no segments, fall back to createBasicVTT
Fallback ==
    /\ pc = "start" /\ segments = <<>>
    /\ LET calls == createBasicVTT(fullText)
           made == [k \in 1..Len(calls) |->
                       CueOf(0, calls[k].index, calls[k].start, calls[k].end,
                             calls[k].text)]
       IN  /\ cues' = made
           /\ vtt' = "WEBVTT\n\n" \o Blocks(made)
    /\ pc' = "done"
    /\ UNCHANGED <<segments, fullText, segIdx, segmentIndex, path, codecVars, appVars, copyVars, saveVars>>

\* createOptimizedVTT, lines 69-70
Begin ==
    /\ pc = "start" /\ segments # <<>>
    /\ vtt' = "WEBVTT\n\n" /\ segmentIndex' = 1 /\ segIdx' = 1
    /\ pc' = "loop"
    /\ UNCHANGED <<segments, fullText, cues, path, codecVars, appVars, copyVars, saveVars>>

\* !segment.start || !segment.end || !segment.text
Degenerate(segment) ==
    segment.start = RInt(0) \/ segment.end = RInt(0) \/ segment.text = ""

\* text.length <= 70 || duration < 4.0
ShortEnough(text, duration) ==
    Len(text) <= KeepMaxLength \/ RLess(duration, RInt(KeepMaxDuration))

\* line 74: the segment is skipped
SkipSegment ==
    /\ pc = "loop" /\ segIdx <= Len(segments)
    /\ Degenerate(segments[segIdx])
    /\ segIdx' = segIdx + 1
    /\ path' = Append(path, "skip")
    /\ UNCHANGED <<segments, fullText, pc, segmentIndex, vtt, cues, codecVars, appVars, copyVars, saveVars>>

\* lines 80-82: the segment is kept as one cue
KeepSegment ==
    /\ pc = "loop" /\ segIdx <= Len(segments)
    /\ LET segment == segments[segIdx]
           text == Trim(segment.text)
           duration == RSub(segment.end, segment.start)
       IN  /\ ~Degenerate(segment)
           /\ ShortEnough(text, duration)
           /\ cues' = Append(cues, CueOf(segIdx, segmentIndex, segment.start,
                                         segment.end, text))
           /\ vtt' = vtt \o formatVTTSegment(segmentIndex, segment.start,
                                             segment.end, text)
    /\ segmentIndex' = segmentIndex + 1
    /\ segIdx' = segIdx + 1
    /\ path' = Append(path, "keep")
    /\ UNCHANGED <<segments, fullText, pc, codecVars, appVars, copyVars, saveVars>>

\* lines 83-89: the segment is split
SplitSegment ==
    /\ pc = "loop" /\ segIdx <= Len(segments)
    /\ LET segment == segments[segIdx]
           text == Trim(segment.text)
           duration == RSub(segment.end, segment.start)
           chunks == ChunksOf(segment)
           made == [k \in 1..Len(chunks) |->
                       CueOf(segIdx, segmentIndex + k - 1, chunks[k].start,
                             chunks[k].end, chunks[k].text)]
       IN  /\ ~Degenerate(segment)
           /\ ~ShortEnough(text, duration)
           /\ cues' = cues \o made
           /\ vtt' = vtt \o Blocks(made)
           /\ segmentIndex' = segmentIndex + Len(chunks)
    /\ segIdx' = segIdx + 1
    /\ path' = Append(path, "split")
    /\ UNCHANGED <<segments, fullText, pc, codecVars, appVars, copyVars, saveVars>>

\* line 92: return vtt
Return ==
    /\ pc = "loop" /\ segIdx > Len(segments)
    /\ pc' = "done"
    /\ UNCHANGED <<segments, fullText, segIdx, segmentIndex, vtt, cues, path, codecVars, appVars, copyVars, saveVars>>

NextSeg == Fallback \/ Begin \/ SkipSegment \/ KeepSegment \/ SplitSegment \/ Return

SpecSeg == InitSeg /\ [][NextSeg]_vars


(***************************************************************************)
(* Subtitle codec: src/app/lib/subtitle-converter.ts (parser "converter")  *)
(* and src/app/components/SubtitleEditor.tsx (parser "editor")             *)
(***************************************************************************)
MaxLines == 5
MaxCues == 2

TsLine == "00:00:01.000 --> 00:00:02.500"
\* a timestamp line whose start is empty
TsNoStart == "--> 00:00:03.000"

LinePool == {"", "WEBVTT", "7", " x", TsLine, TsNoStart}

\* Documents as loaded from a file: up to MaxLines lines
DocPool == {Join(ls, "\n") : ls \in SeqsUpTo(LinePool, MaxLines)}

CueTimes == {<<"00:00:00.000", "00:00:01.500">>, <<"00:01:01.001", "00:01:02.000">>}
CueTexts == {"a", "b c", "a\nb"}

\* Cues as the converter holds them, and as the editor holds them
ConverterCues ==
    {[startTime |-> t[1], endTime |-> t[2], text |-> x] : t \in CueTimes, x \in CueTexts}
EditorCues ==
    {[id |-> n, startTime |-> t[1], endTime |-> t[2], text |-> x] :
        n \in {"", "7"}, t \in CueTimes, x \in CueTexts}

IdleSeg ==
    /\ segments = <<>> /\ fullText = "" /\ pc = "done" /\ segIdx = 1
    /\ segmentIndex = 1 /\ vtt = "" /\ cues = <<>> /\ path = <<>>

InitCodec(copy) ==
    /\ IdleSeg /\ results = <<>> /\ IdleServer
    /\ parser = copy
    /\ \/ /\ cpc = "load"
          /\ input = <<>>
          /\ doc \in DocPool
       \/ /\ cpc = "serialize"
          /\ input \in (SeqsUpTo(IF parser = "editor" THEN EditorCues ELSE ConverterCues,
                                 MaxCues) \ {<<>>})
          /\ doc = ""
    /\ lines = <<>> /\ li = 1 /\ state = 0
    /\ currentEntry = EmptyEntry /\ textBuffer = <<>> /\ textSrc = <<>> /\ entries = <<>>
    /\ pendingSrc = NoSrc /\ emitLog = <<>> /\ visits = <<>>
    /\ IdleApp

\* convertToVTT
RECURSIVE convertToVTTFrom(_, _)
convertToVTTFrom(es, index) ==
    IF index >= Len(es) THEN ""
    ELSE NatToString(index + 1) \o "\n"
         \o es[index + 1].startTime \o " --> " \o es[index + 1].endTime \o "\n"
         \o es[index + 1].text \o "\n\n"
         \o convertToVTTFrom(es, index + 1)

convertToVTT(es) == "WEBVTT\n\n" \o convertToVTTFrom(es, 0)

\* generateVTT
RECURSIVE generateVTTFrom(_, _)
generateVTTFrom(subs, index) ==
    IF index >= Len(subs) THEN ""
    ELSE (IF subs[index + 1].id # "" THEN subs[index + 1].id ELSE NatToString(index + 1))
         \o "\n"
         \o subs[index + 1].startTime \o " --> " \o subs[index + 1].endTime \o "\n"
         \o subs[index + 1].text \o "\n\n"
         \o generateVTTFrom(subs, index + 1)

\* generateVTT with the slip of numbering every block by its position, whatever
\* its id
generateVTTNumbered(subs) == "WEBVTT\n\n" \o convertToVTTFrom(subs, 0)

generateVTT(subs) == "WEBVTT\n\n" \o generateVTTFrom(subs, 0)

\* The document is fetched and handed to parseVTT: vttContent.split('\n')
Load ==
    /\ cpc = "load"
    /\ lines' = Split(doc, "\n")
    /\ cpc' = "parse"
    /\ visits' = [k \in 1..Len(lines') |-> 0]
    /\ UNCHANGED <<saveVars, copyVars, segVars, appVars, parser, input, doc, li, state, currentEntry, textBuffer, textSrc,
                   entries, pendingSrc, emitLog>>

\* The cues are serialized and the result is handed to parseVTT
Serialize ==
    /\ cpc = "serialize"
    /\ LET text == IF parser = "editor" THEN generateVTT(input) ELSE convertToVTT(input)
       IN  /\ doc' = text
           /\ lines' = Split(text, "\n")
    /\ cpc' = "parse"
    /\ visits' = [k \in 1..Len(lines') |-> 0]
    /\ UNCHANGED <<saveVars, copyVars, segVars, appVars, parser, input, li, state, currentEntry, textBuffer, textSrc,
                   entries, pendingSrc, emitLog>>

\* const line = lines[i].trim()
CurrentLine == Trim(lines[li])

\* textBuffer.length > 0 && currentEntry.startTime
Emittable ==
    Len(textBuffer) > 0 /\ currentEntry.startTime # None /\ currentEntry.startTime[1] # ""

\* PendingEntry with the slip of a one-based default id
PendingEntryOneBased ==
    IF parser \in {"editor", "viewer"}
    THEN [id |-> IF currentEntry.id # None THEN currentEntry.id[1]
                 ELSE NatToString(Len(entries) + 1),
          startTime |-> currentEntry.startTime[1],
          endTime |-> currentEntry.endTime[1],
          text |-> Join(textBuffer, " ")]
    ELSE [startTime |-> currentEntry.startTime[1],
          endTime |-> currentEntry.endTime[1],
          text |-> Join(textBuffer, " ")]

\* The entry that entries.push receives
PendingEntry ==
    IF parser \in {"editor", "viewer"}
    THEN [id |-> IF currentEntry.id # None THEN currentEntry.id[1]
                 ELSE NatToString(Len(entries)),
          startTime |-> currentEntry.startTime[1],
          endTime |-> currentEntry.endTime[1],
          text |-> Join(textBuffer, " ")]
    ELSE [startTime |-> currentEntry.startTime[1],
          endTime |-> currentEntry.endTime[1],
          text |-> Join(textBuffer, " ")]

EmitRecord(cause) ==
    [label |-> pendingSrc.label, ts |-> pendingSrc.ts, at |-> li, cause |-> cause,
     text |-> textSrc]

\* const [startTime, endTime] = line.split('-->').map(t => t.trim())
TimesOf(line) ==
    LET parts == Split(line, "-->")
    IN  [startTime |-> Some(Trim(parts[1])), endTime |-> Some(Trim(parts[2]))]

\* if (line === 'WEBVTT') continue
ParseHeader ==
    /\ cpc = "parse" /\ li <= Len(lines)
    /\ visits' = [visits EXCEPT ![li] = @ + 1]
    /\ CurrentLine = "WEBVTT"
    /\ li' = li + 1
    /\ UNCHANGED <<saveVars, copyVars, segVars, appVars, parser, input, doc, lines, state, currentEntry, textBuffer, textSrc,
                   entries, cpc, pendingSrc, emitLog>>

\* if (line === '') { ... state = 0; continue }
ParseBlank ==
    /\ cpc = "parse" /\ li <= Len(lines)
    /\ visits' = [visits EXCEPT ![li] = @ + 1]
    /\ CurrentLine = ""
    /\ IF Emittable
       THEN /\ entries' = Append(entries, PendingEntry)
            /\ emitLog' = Append(emitLog, EmitRecord("blank"))
            /\ textBuffer' = <<>> /\ textSrc' = <<>>
            /\ currentEntry' = EmptyEntry
            /\ pendingSrc' = NoSrc
       ELSE UNCHANGED <<entries, emitLog, textBuffer, textSrc, currentEntry, pendingSrc>>
    /\ state' = 0
    /\ li' = li + 1
    /\ UNCHANGED <<saveVars, copyVars, segVars, appVars, parser, input, doc, lines, cpc>>

\* case 0
ParseIdOrTimestamp ==
    /\ cpc = "parse" /\ li <= Len(lines)
    /\ visits' = [visits EXCEPT ![li] = @ + 1]
    /\ CurrentLine \notin {"WEBVTT", ""}
    /\ state = 0
    /\ IF Includes(CurrentLine, "-->")
       THEN /\ currentEntry' = [id |-> None,
                                startTime |-> TimesOf(CurrentLine).startTime,
                                endTime |-> TimesOf(CurrentLine).endTime]
            /\ pendingSrc' = [label |-> 0, ts |-> li]
            /\ state' = 2
       ELSE /\ IF parser \in {"editor", "viewer"}
               THEN /\ currentEntry' = [id |-> Some(CurrentLine), startTime |-> None,
                                        endTime |-> None]
                    /\ pendingSrc' = [label |-> li, ts |-> 0]
               ELSE UNCHANGED <<currentEntry, pendingSrc>>
            /\ state' = 1
    /\ li' = li + 1
    /\ UNCHANGED <<saveVars, copyVars, segVars, appVars, parser, input, doc, lines, textBuffer, textSrc, entries, cpc, emitLog>>

\* ParseTimestamp with the slip of not resetting the state when the line is
\* read again
ParseTimestampStays ==
    /\ cpc = "parse" /\ li <= Len(lines)
    /\ visits' = [visits EXCEPT ![li] = @ + 1]
    /\ CurrentLine \notin {"WEBVTT", ""}
    /\ state = 1
    /\ IF Includes(CurrentLine, "-->")
       THEN /\ currentEntry' = [currentEntry EXCEPT
                                   !.startTime = TimesOf(CurrentLine).startTime,
                                   !.endTime = TimesOf(CurrentLine).endTime]
            /\ pendingSrc' = [pendingSrc EXCEPT !.ts = li]
            /\ state' = 2
            /\ li' = li + 1
            /\ UNCHANGED <<textBuffer, textSrc>>
       ELSE /\ currentEntry' = EmptyEntry
            /\ pendingSrc' = NoSrc
            /\ textBuffer' = <<>> /\ textSrc' = <<>>
            /\ state' = 1
            /\ li' = li
    /\ UNCHANGED <<saveVars, copyVars, segVars, appVars, parser, input, doc, lines, entries, cpc, emitLog>>

\* case 1
ParseTimestamp ==
    /\ cpc = "parse" /\ li <= Len(lines)
    /\ visits' = [visits EXCEPT ![li] = @ + 1]
    /\ CurrentLine \notin {"WEBVTT", ""}
    /\ state = 1
    /\ IF Includes(CurrentLine, "-->")
       THEN /\ currentEntry' = [currentEntry EXCEPT
                                   !.startTime = TimesOf(CurrentLine).startTime,
                                   !.endTime = TimesOf(CurrentLine).endTime]
            /\ pendingSrc' = [pendingSrc EXCEPT !.ts = li]
            /\ state' = 2
            /\ li' = li + 1
            /\ UNCHANGED <<textBuffer, textSrc>>
       ELSE /\ currentEntry' = EmptyEntry
            /\ pendingSrc' = NoSrc
            /\ textBuffer' = <<>> /\ textSrc' = <<>>
            /\ state' = 0
            \* i-- and the loop's i++: the same line is read again
            /\ li' = li
    /\ UNCHANGED <<saveVars, copyVars, segVars, appVars, parser, input, doc, lines, entries, cpc, emitLog>>

\* The viewer's copy, case 2 on a timestamp line: lines[i-1]?.trim(), "" when
\* there is no such line
potentialIdLine == IF li >= 2 THEN Trim(lines[li - 1]) ELSE ""

\* HasPotentialId with the slip of not asking for a blank line before the
\* candidate
HasPotentialIdAnyLine ==
    potentialIdLine # "" /\ ~Includes(potentialIdLine, "-->")

\* potentialIdLine && !potentialIdLine.includes('-->') && potentialIdLine !== ''
\* && lines[i-2]?.trim() === ''
HasPotentialId ==
    /\ potentialIdLine # "" /\ ~Includes(potentialIdLine, "-->")
    /\ li >= 3 /\ Trim(lines[li - 2]) = ""

\* case 2
ParseText ==
    /\ cpc = "parse" /\ li <= Len(lines)
    /\ visits' = [visits EXCEPT ![li] = @ + 1]
    /\ CurrentLine \notin {"WEBVTT", ""}
    /\ state = 2
    /\ IF Includes(CurrentLine, "-->")
       THEN /\ IF Emittable
               THEN /\ entries' = Append(entries, PendingEntry)
                    /\ emitLog' = Append(emitLog, EmitRecord("timestamp"))
               ELSE UNCHANGED <<entries, emitLog>>
            /\ textBuffer' = <<>> /\ textSrc' = <<>>
            /\ IF parser = "viewer" /\ HasPotentialId
               THEN /\ currentEntry' = [id |-> Some(potentialIdLine),
                                        startTime |-> TimesOf(CurrentLine).startTime,
                                        endTime |-> TimesOf(CurrentLine).endTime]
                    /\ pendingSrc' = [label |-> li - 1, ts |-> li]
               ELSE /\ currentEntry' = [id |-> None,
                                        startTime |-> TimesOf(CurrentLine).startTime,
                                        endTime |-> TimesOf(CurrentLine).endTime]
                    /\ pendingSrc' = [label |-> 0, ts |-> li]
       ELSE /\ textBuffer' = Append(textBuffer, CurrentLine) /\ textSrc' = Append(textSrc, li)
            /\ UNCHANGED <<entries, emitLog, currentEntry, pendingSrc>>
    /\ state' = 2
    /\ li' = li + 1
    /\ UNCHANGED <<saveVars, copyVars, segVars, appVars, parser, input, doc, lines, cpc>>

\* after the loop: the last entry, then return entries
ParseEnd ==
    /\ cpc = "parse" /\ li > Len(lines)
    /\ IF Emittable
       THEN /\ entries' = Append(entries, PendingEntry)
            /\ emitLog' = Append(emitLog, EmitRecord("eof"))
       ELSE UNCHANGED <<entries, emitLog>>
    /\ cpc' = "done"
    /\ UNCHANGED <<saveVars, copyVars, segVars, appVars, parser, input, doc, lines, li, state, currentEntry,
                   textBuffer, textSrc, pendingSrc, visits>>

NextCodec ==
    \/ Load \/ Serialize \/ ParseHeader \/ ParseBlank \/ ParseIdOrTimestamp
    \/ ParseTimestamp \/ ParseText \/ ParseEnd

InitConverter == InitCodec("converter")
InitEditor == InitCodec("editor")

\* subtitle-converter.ts: convertToVTT and parseVTT
SpecConverter == InitConverter /\ [][NextCodec]_vars
\* SubtitleEditor.tsx: generateVTT and parseVTT
SpecEditor == InitEditor /\ [][NextCodec]_vars


(***************************************************************************)
(* Properties of the segmenter (checked under SpecSeg)                     *)
(***************************************************************************)
Duration(segment) == RSub(segment.end, segment.start)

\* A TranscriptSegment as the data model has it: non-empty text, end > start
ValidSegment(segment) == segment.text # "" /\ RLess(segment.start, segment.end)

Visited == 1..Len(path)
CuesOfSeg(k) == SelectSeq(cues, LAMBDA c : c.seg = k)
CueTextsOf(k) == [j \in 1..Len(CuesOfSeg(k)) |-> CuesOfSeg(k)[j].text]

\* cs, in order, is a contiguous partition of [s, e]
Partition(cs, s, e) ==
    /\ Len(cs) > 0
    /\ cs[1].start = s
    /\ \A j \in 1..(Len(cs) - 1) : cs[j].end = cs[j + 1].start
    /\ cs[Len(cs)].end = e

LongOrSlow(segment) ==
    \/ Len(Trim(segment.text)) > KeepMaxLength
    \/ ~RLess(Duration(segment), RInt(KeepMaxDuration))

\* C1: for every segment with len(text) > 70 or duration >= 4.0 (here: every such
\* valid segment that is not skipped), the cues emitted for it, in order, form a
\* contiguous partition of [start, end]: the first cue starts at start, each
\* cue's end is the next cue's start, and the last cue ends at end.
C1_CoveragePartition ==
    \A k \in Visited :
        (ValidSegment(segments[k]) /\ ~Degenerate(segments[k]) /\ LongOrSlow(segments[k]))
        => Partition(CuesOfSeg(k), segments[k].start, segments[k].end)

ExampleSegment == [start |-> RInt(0), end |-> RInt(10), text |-> TextExample]

\* C2: the segment {start: 0, end: 10, text: the example sentence} activates the
\* splitter and yields at least 2 cues, the first with startTime "00:00:00.000"
\* and the last with endTime "00:00:10.000".
C2_EndToEndExample ==
    (pc = "done" /\ segments = <<ExampleSegment>>)
    => /\ path = <<"split">>
       /\ Len(cues) >= 2
       /\ cues[1].startTime = "00:00:00.000"
       /\ cues[Len(cues)].endTime = "00:00:10.000"

\* C4: a segment with text.length <= 70 and duration < 4.0 produces exactly one
\* cue whose interval is [start, end] and whose text is the sanitized text.
C4_ShortPassthrough ==
    \A k \in Visited :
        (/\ ValidSegment(segments[k]) /\ ~Degenerate(segments[k])
         /\ Len(segments[k].text) <= KeepMaxLength
         /\ RLess(Duration(segments[k]), RInt(KeepMaxDuration)))
        => /\ Len(CuesOfSeg(k)) = 1
           /\ CuesOfSeg(k)[1].start = segments[k].start
           /\ CuesOfSeg(k)[1].end = segments[k].end
           /\ CuesOfSeg(k)[1].text = Sanitize(Trim(segments[k].text))

\* C5: a segment is emitted as one unsplit cue only when both text.length <= 70
\* and duration < 4.0 hold; every segment with text.length > 70 or
\* duration >= 4.0 is handed to the splitting algorithm.
C5_KeepOnlyShortAndQuick ==
    \A k \in Visited :
        /\ path[k] = "keep"
           => /\ Len(Trim(segments[k].text)) <= KeepMaxLength
              /\ RLess(Duration(segments[k]), RInt(KeepMaxDuration))
        /\ (ValidSegment(segments[k]) /\ ~Degenerate(segments[k])
            /\ LongOrSlow(segments[k]))
           => path[k] = "split"

\* C6: segment([]) with fullText = "" returns an empty document: the generated
\* cue-format document contains no cue block.
C6_EmptyInputEmptyDocument ==
    (pc = "done" /\ segments = <<>> /\ fullText = "")
    => (cues = <<>> /\ vtt = "WEBVTT\n\n")

\* Whitespace normalization: the words of s, and s with every run of spaces
\* replaced by one space
Words(s) == SelectSeq(Split(s, " "), LAMBDA w : w # "")
NormalizeSpaces(s) == Join(Words(s), " ")

\* C7 as stated: for every split segment the cue texts joined with single spaces
\* equal the sanitized segment text with whitespace runs normalized.
C7_JoinedEqualsNormalized ==
    \A k \in Visited :
        path[k] = "split"
        => Join(CueTextsOf(k), " ") = NormalizeSpaces(Sanitize(Trim(segments[k].text)))

\* C7 as amended: for every split segment the cue texts joined with single spaces
\* and the sanitized segment text are equal once whitespace runs are normalized
\* in both: the same words in the same order, none lost, duplicated or moved.
C7_WordsPreserved ==
    \A k \in Visited :
        path[k] = "split"
        => Words(Join(CueTextsOf(k), " ")) = Words(Sanitize(Trim(segments[k].text)))

\* A segment split at a punctuation mark and by word wrapping has been emitted,
\* and one whose text holds a run of two spaces has been split.
C7_Witness ==
    /\ pc = "done"
    /\ \E k \in Visited : path[k] = "split" /\ Len(CuesOfSeg(k)) >= 3
    /\ \E k \in Visited : path[k] = "split" /\ Includes(segments[k].text, "  ")

AmPmTokens == {"a.m.", "p.m.", "A.M.", "P.M.", "A.m.", "P.m.", "a.M.", "p.M."}

\* C8: sanitization rewrites every a.m./p.m. token, in any letter case, to its
\* period-free form before the text is split: "Meeting at 3 p.m. today" becomes
\* "Meeting at 3 pm today", and no cue of a split segment holds such a token
\* (so no cue boundary follows its period).
C8_AmPmSanitized ==
    /\ Sanitize(TextMeeting) = "Meeting at 3 pm today"
    /\ \A k \in Visited :
          path[k] = "split"
          => \A j \in 1..Len(CuesOfSeg(k)) :
                \A tok \in AmPmTokens : ~Includes(CuesOfSeg(k)[j].text, tok)

\* C9: a degenerate segment (zero-length text, or non-positive duration
\* end <= start) produces no cue at all.
C9_DegenerateSkipped ==
    \A k \in Visited :
        (segments[k].text = "" \/ RLeq(segments[k].end, segments[k].start))
        => CuesOfSeg(k) = <<>>


(***************************************************************************)
(* Properties of the codec (checked under SpecConverter and SpecEditor)    *)
(***************************************************************************)
Triple(e) == <<e.startTime, e.endTime, e.text>>
Triples(es) == [k \in 1..Len(es) |-> Triple(es[k])]

\* C3: for any non-empty sequence of cues with valid timestamps and non-empty
\* text (embedded newlines allowed), parsing the cue-format serialization returns
\* the same number of cues with the same (startTime, endTime, text) triples in
\* the same order.
C3_RoundTrip ==
    (cpc = "done" /\ input # <<>>) => Triples(entries) = Triples(input)

\* Shapes of the lines of the document, from its text alone
IsBlank(n) == Trim(lines[n]) = ""
IsHeader(n) == Trim(lines[n]) = "WEBVTT"
HasArrow(n) == Includes(lines[n], "-->")
IsPlain(n) == ~IsBlank(n) /\ ~IsHeader(n) /\ ~HasArrow(n)
\* line n lies in the text part of a block: a timestamp line precedes it with no
\* blank line in between
InTextPart(n) ==
    \E a \in 1..(n - 1) : HasArrow(a) /\ \A b \in (a + 1)..(n - 1) : ~IsBlank(b)
\* line n is a label line: a plain line outside the text part of a block
IsLabelLine(n) == IsPlain(n) /\ ~InTextPart(n)
\* the timestamp line n directly follows a blank line or the header
NoLabelBefore(n) == n = 1 \/ IsBlank(n - 1) \/ (n = 2 /\ IsHeader(1))
\* line n is a timestamp line with a start time, and a text line follows it
WellFormedBlockAt(n) ==
    /\ HasArrow(n) /\ Trim(Split(lines[n], "-->")[1]) # ""
    /\ n < Len(lines) /\ IsPlain(n + 1)

C11_ParseTerminates ==
    cpc \in {"parse", "done"} =>
        /\ Len(visits) = Len(lines)
        /\ li \in 1..(Len(lines) + 1)
        /\ \A k \in 1..Len(lines) :
              /\ visits[k] <= 2
              /\ k < li => visits[k] >= 1
              /\ k > li => visits[k] = 0
              /\ (k = li /\ cpc = "parse") => /\ visits[k] <= 1
                                              /\ visits[k] = 1 => state = 0
        /\ (cpc = "parse" /\ li <= Len(lines)) =>
              \* the switch has a case for the state, and the destructuring
              \* of line.split('-->') finds its two parts
              /\ state \in {0, 1, 2}
              /\ Includes(CurrentLine, "-->") => Len(Split(CurrentLine, "-->")) >= 2
        /\ cpc = "done" => /\ li = Len(lines) + 1
                           /\ Len(entries) <= Len(lines)

\* a parse that has returned cues after re-processing a line
C11_Witness ==
    /\ cpc = "done" /\ entries # <<>>
    /\ \E k \in 1..Len(lines) : visits[k] = 2

(***************************************************************************)
(* Timestamp conversions: src/app/lib/subtitle-converter.ts lines 8-22 and *)
(* src/app/components/SubtitleEditor.tsx lines 245-259                     *)
(***************************************************************************)
\* A number is an exact rational <<n, d>> with d > 0, or NaN.  The rounding of
\* IEEE doubles is not represented: toFixed is exact on every value that is
\* not a decimal tie at the requested digit.
NaN == <<0, 0>>

NumAdd(a, b) == IF a = NaN \/ b = NaN THEN NaN ELSE RAdd(a, b)
NumMulInt(a, k) == IF a = NaN THEN NaN ELSE RMulInt(a, k)
NumDivInt(a, k) == IF a = NaN THEN NaN ELSE RDivInt(a, k)
\* a % k, for a >= 0 or NaN
NumModInt(a, k) == IF a = NaN THEN NaN ELSE RModInt(a, k)
\* Math.floor
NumFloor(a) == IF a = NaN THEN NaN ELSE RInt(RFloor(a))
\* Number.prototype.toString of Math.floor's result, for a >= 0 or NaN
NumToString(a) == IF a = NaN THEN "NaN" ELSE NatToString(a[1])

Digits == {Digit(n) : n \in 0..9}
DigitValue(c) == CHOOSE n \in 0..9 : Digit(n) = c

\* The length of the run of decimal digits of s that starts at position i
DigitRun(s, i) ==
    Min({k \in i..(Len(s) + 1) : k > Len(s) \/ At(s, k) \notin Digits}) - i

RECURSIVE DigitsToNat(_)
DigitsToNat(s) ==
    IF s = "" THEN 0
    ELSE 10 * DigitsToNat(SubSeq(s, 1, Len(s) - 1)) + DigitValue(At(s, Len(s)))

RECURSIVE Pow10(_)
Pow10(k) == IF k = 0 THEN 1 ELSE 10 * Pow10(k - 1)

\* parseInt(s): leading whitespace, a sign, then the longest run of decimal
\* digits; NaN when there is no digit.
parseInt(s) ==
    LET t == TrimStart(s)
        signed == Len(t) > 0 /\ At(t, 1) \in {"+", "-"}
        from == IF signed THEN 2 ELSE 1
        n == DigitRun(t, from)
        v == DigitsToNat(SubSeq(t, from, from + n - 1))
    IN  IF n = 0 THEN NaN
        ELSE RInt(IF signed /\ At(t, 1) = "-" THEN -v ELSE v)

\* parseFloat(s): leading whitespace, a sign, digits, then '.' and digits; NaN
\* when there is no digit.
parseFloat(s) ==
    LET t == TrimStart(s)
        signed == Len(t) > 0 /\ At(t, 1) \in {"+", "-"}
        from == IF signed THEN 2 ELSE 1
        n == DigitRun(t, from)
        f == IF StartsWithAt(t, ".", from + n) THEN DigitRun(t, from + n + 1) ELSE 0
        whole == DigitsToNat(SubSeq(t, from, from + n - 1))
        frac == DigitsToNat(SubSeq(t, from + n + 1, from + n + f))
        v == whole * Pow10(f) + frac
    IN  IF n = 0 /\ f = 0 THEN NaN
        ELSE Rat(IF signed /\ At(t, 1) = "-" THEN -v ELSE v, Pow10(f))

\* timeToSeconds (the same function in both files)
timeToSeconds(timeStr) ==
    LET parts == Split(timeStr, ":")
    IN  IF Len(parts) = 3
        THEN NumAdd(NumAdd(NumMulInt(parseInt(parts[1]), 3600),
                           NumMulInt(parseInt(parts[2]), 60)),
                    parseFloat(parts[3]))
        ELSE RInt(0)

\* Number.prototype.toFixed(digits), for x >= 0 or NaN
toFixed(x, digits) ==
    IF x = NaN THEN "NaN"
    ELSE LET scaled == RFloor(RAdd(RMulInt(x, Pow10(digits)), Rat(1, 2)))
         IN  NatToString(scaled \div Pow10(digits)) \o "."
             \o PadStart(NatToString(scaled % Pow10(digits)), digits)

\* SubtitleEditor.tsx secondsToTime
secondsToTime(seconds) ==
    LET hours == NumFloor(NumDivInt(seconds, 3600))
        minutes == NumFloor(NumDivInt(NumModInt(seconds, 3600), 60))
        secs == toFixed(NumModInt(seconds, 60), 3)
    IN  PadStart(NumToString(hours), 2) \o ":" \o PadStart(NumToString(minutes), 2)
        \o ":" \o PadStart(secs, 6)

(***************************************************************************)
(* Editor session: src/app/components/SubtitleEditor.tsx, the component    *)
(* state and its edit operations                                           *)
(***************************************************************************)
MaxOps == 4

TsLater == "00:00:03.000 --> 00:00:04.000"
\* a timestamp line whose end is empty
TsNoEnd == "00:00:05.000 -->"

Block(label, ts, text) ==
    (IF label = "" THEN "" ELSE label \o "\n") \o ts \o "\n" \o text

\* Documents the editor is opened on
SessionDocs ==
    {"WEBVTT",
     "WEBVTT\n\n" \o Block("1", TsLine, "hello"),
     "WEBVTT\n\n" \o Block("1", TsLine, "hello") \o "\n\n" \o Block("2", TsLater, "world"),
     "WEBVTT\n\n" \o Block("7", TsLine, "hello") \o "\n\n" \o Block("7", TsLater, "world"),
     "WEBVTT\n\n" \o Block("", TsLine, "hello") \o "\n\n" \o Block("0", TsLater, "world"),
     "WEBVTT\n\n" \o Block("1", TsLine, "hello") \o "\n\n" \o Block("2", TsNoEnd, "world")}

\* What the user types into the form's fields
FormStartTimes == {"00:00:00.500", "00:00:09.000"}
FormEndTimes == {"00:00:09.500", "9"}
FormTexts == {"edited"}

\* The text of a new cue: the source's literal is five CJK characters, written
\* here by its meaning
NewSubtitleText == "new subtitle text"

InitSession ==
    /\ IdleSeg /\ results = <<>> /\ IdleServer
    /\ parser = "editor" /\ cpc = "load" /\ input = <<>>
    /\ doc \in SessionDocs
    /\ lines = <<>> /\ li = 1 /\ state = 0
    /\ currentEntry = EmptyEntry /\ textBuffer = <<>> /\ textSrc = <<>> /\ entries = <<>>
    /\ pendingSrc = NoSrc /\ emitLog = <<>> /\ visits = <<>>
    /\ download = None /\ subtitles = <<>> /\ editingId = None
    /\ editForm = EmptyForm /\ now = 1000000000 /\ opCount = 0 /\ opened = 0
    /\ lastOp = NoOp

\* setSubtitles(parseVTT(vttContent))
Mount ==
    /\ cpc = "done" /\ parser = "editor"
    /\ subtitles' = entries
    /\ cpc' = "edit"
    /\ UNCHANGED <<saveVars, copyVars, segVars, parser, input, doc, lines, li, state, currentEntry,
                   textBuffer, textSrc, entries, pendingSrc, emitLog, visits>>
    /\ UNCHANGED <<download, editingId, editForm, now, opCount, opened, lastOp>>

\* editingId === subtitle.id: the row shows the form, not its buttons
InEditMode(p) == editingId = Some(subtitles[p].id)
FormShown == \E p \in 1..Len(subtitles) : InEditMode(p)

MayOperate == cpc = "edit" /\ opCount < MaxOps

FormOf(subtitle) ==
    [startTime |-> subtitle.startTime, endTime |-> subtitle.endTime,
     text |-> subtitle.text]

\* startEdit(subtitle), from the button of row p
StartEdit ==
    /\ MayOperate
    /\ \E p \in 1..Len(subtitles) :
          /\ ~InEditMode(p)
          /\ editingId' = Some(subtitles[p].id)
          /\ editForm' = FormOf(subtitles[p])
          /\ opened' = p
          /\ lastOp' = [op |-> "startEdit", pos |-> p, before |-> subtitles]
    /\ opCount' = opCount + 1
    /\ UNCHANGED <<saveVars, copyVars, segVars, codecVars, download, subtitles, now>>

\* onChange of the start time field
ChangeStartTime ==
    /\ MayOperate /\ FormShown
    /\ \E v \in FormStartTimes : editForm' = [editForm EXCEPT !.startTime = v]
    /\ lastOp' = [op |-> "change", pos |-> opened, before |-> subtitles]
    /\ opCount' = opCount + 1
    /\ UNCHANGED <<saveVars, copyVars, segVars, codecVars, download, subtitles, editingId, now, opened>>

\* onChange of the end time field
ChangeEndTime ==
    /\ MayOperate /\ FormShown
    /\ \E v \in FormEndTimes : editForm' = [editForm EXCEPT !.endTime = v]
    /\ lastOp' = [op |-> "change", pos |-> opened, before |-> subtitles]
    /\ opCount' = opCount + 1
    /\ UNCHANGED <<saveVars, copyVars, segVars, codecVars, download, subtitles, editingId, now, opened>>

\* onChange of the text area
ChangeText ==
    /\ MayOperate /\ FormShown
    /\ \E v \in FormTexts : editForm' = [editForm EXCEPT !.text = v]
    /\ lastOp' = [op |-> "change", pos |-> opened, before |-> subtitles]
    /\ opCount' = opCount + 1
    /\ UNCHANGED <<saveVars, copyVars, segVars, codecVars, download, subtitles, editingId, now, opened>>

\* cancelEdit
CancelEdit ==
    /\ MayOperate /\ FormShown
    /\ editingId' = None
    /\ editForm' = EmptyForm
    /\ opened' = 0
    /\ lastOp' = [op |-> "cancelEdit", pos |-> opened, before |-> subtitles]
    /\ opCount' = opCount + 1
    /\ UNCHANGED <<saveVars, copyVars, segVars, codecVars, download, subtitles, now>>

\* saveEdit
SaveEdit ==
    /\ MayOperate /\ FormShown
    /\ editingId # None
    /\ subtitles' = [k \in 1..Len(subtitles) |->
                        IF Some(subtitles[k].id) = editingId
                        THEN [id |-> subtitles[k].id, startTime |-> editForm.startTime,
                              endTime |-> editForm.endTime, text |-> editForm.text]
                        ELSE subtitles[k]]
    /\ editingId' = None
    /\ editForm' = EmptyForm
    /\ opened' = 0
    /\ lastOp' = [op |-> "saveEdit", pos |-> opened, before |-> subtitles]
    /\ opCount' = opCount + 1
    /\ UNCHANGED <<saveVars, copyVars, segVars, codecVars, download, now>>

\* deleteSubtitle(subtitle.id), from the button of row p
DeleteSubtitle ==
    /\ MayOperate
    /\ \E p \in 1..Len(subtitles) :
          /\ ~InEditMode(p)
          /\ LET id == subtitles[p].id
             IN  /\ subtitles' = SelectSeq(subtitles, LAMBDA sub : sub.id # id)
                 /\ opened' = IF opened = 0 \/ subtitles[opened].id = id THEN 0
                              ELSE opened - Cardinality({k \in 1..(opened - 1) :
                                                            subtitles[k].id = id})
          /\ lastOp' = [op |-> "deleteSubtitle", pos |-> p, before |-> subtitles]
    /\ opCount' = opCount + 1
    /\ UNCHANGED <<saveVars, copyVars, segVars, codecVars, download, editingId, editForm, now>>

\* addNewSubtitle; Date.now() reads the clock, which has not gone back since
\* the last reading
AddNewSubtitle ==
    /\ MayOperate
    /\ \E t \in {now, now + 1} :
          LET lastSubtitle == subtitles[Len(subtitles)]
              newStartTime ==
                  IF Len(subtitles) > 0
                  THEN secondsToTime(NumAdd(timeToSeconds(lastSubtitle.endTime), RInt(1)))
                  ELSE "00:00:00.000"
              newEndTime == secondsToTime(NumAdd(timeToSeconds(newStartTime), RInt(3)))
              newSubtitle == [id |-> NatToString(t), startTime |-> newStartTime,
                              endTime |-> newEndTime, text |-> NewSubtitleText]
          IN  /\ now' = t
              /\ subtitles' = Append(subtitles, newSubtitle)
              /\ editingId' = Some(newSubtitle.id)
              /\ editForm' = FormOf(newSubtitle)
              /\ opened' = Len(subtitles) + 1
              /\ lastOp' = [op |-> "addNewSubtitle", pos |-> Len(subtitles) + 1,
                            before |-> subtitles]
    /\ opCount' = opCount + 1
    /\ UNCHANGED <<saveVars, copyVars, segVars, codecVars, download>>

NextSession ==
    \/ Load \/ ParseHeader \/ ParseBlank \/ ParseIdOrTimestamp \/ ParseTimestamp
    \/ ParseText \/ ParseEnd \/ Mount
    \/ StartEdit \/ ChangeStartTime \/ ChangeEndTime \/ ChangeText \/ CancelEdit
    \/ SaveEdit \/ DeleteSubtitle \/ AddNewSubtitle

\* SubtitleEditor.tsx: a document is loaded and then edited
SpecSession == InitSession /\ [][NextSession]_vars

(***************************************************************************)
(* Properties of the editor session (checked under SpecSession)            *)
(***************************************************************************)
RemoveAt(s, p) == SubSeq(s, 1, p - 1) \o SubSeq(s, p + 1, Len(s))

\* The list holds only cues of the parsed document (none made by
\* addNewSubtitle)
FromDocument(subs) ==
    \A k \in 1..Len(subs) : \E j \in 1..Len(entries) : subs[k].id = entries[j].id

\* C12: edit and delete act on exactly one cue of a parsed document.  After
\* saveEdit the list has the same length and every cue other than the one the
\* form was opened on is unchanged and in place; after deleteSubtitle the list
\* is the list before with exactly the selected cue removed.
C12_ActsOnOneCue ==
    FromDocument(lastOp.before) =>
        /\ lastOp.op = "saveEdit" =>
              /\ Len(subtitles) = Len(lastOp.before)
              /\ \A k \in 1..Len(subtitles) :
                    k # lastOp.pos => subtitles[k] = lastOp.before[k]
        /\ lastOp.op = "deleteSubtitle" =>
              subtitles = RemoveAt(lastOp.before, lastOp.pos)

StartSeconds(sub) == timeToSeconds(sub.startTime)

Ordered(subs) ==
    \A k \in 1..(Len(subs) - 1) : RLeq(StartSeconds(subs[k]), StartSeconds(subs[k + 1]))

\* C13: the cues stay ordered by non-decreasing startTime.  Whenever the
\* document was ordered when it was loaded, the editor's list is ordered after
\* every sequence of editor operations.
C13_StaysOrdered ==
    (cpc = "edit" /\ Ordered(entries)) => Ordered(subtitles)

(***************************************************************************)
(* Download in another format: src/app/lib/subtitle-converter.ts,          *)
(* downloadSubtitles with convertToSRT, convertToTXT and convertToASS      *)
(***************************************************************************)
\* secondsToSRTTime with the slip of taking the minutes of the whole time
secondsToSRTTimeAllMinutes(seconds) ==
    LET hours == NumFloor(NumDivInt(seconds, 3600))
        minutes == NumFloor(NumDivInt(seconds, 60))
        fixed == toFixed(NumModInt(seconds, 60), 3)
        dot == IndexOfFrom(fixed, ".", 1)
        secs == IF dot = 0 THEN fixed
                ELSE SubSeq(fixed, 1, dot - 1) \o "," \o SubSeq(fixed, dot + 1, Len(fixed))
    IN  PadStart(NumToString(hours), 2) \o ":" \o PadStart(NumToString(minutes), 2)
        \o ":" \o PadStart(secs, 6)

\* secondsToSRTTime; replace('.', ',') replaces the first dot
secondsToSRTTime(seconds) ==
    LET hours == NumFloor(NumDivInt(seconds, 3600))
        minutes == NumFloor(NumDivInt(NumModInt(seconds, 3600), 60))
        fixed == toFixed(NumModInt(seconds, 60), 3)
        dot == IndexOfFrom(fixed, ".", 1)
        secs == IF dot = 0 THEN fixed
                ELSE SubSeq(fixed, 1, dot - 1) \o "," \o SubSeq(fixed, dot + 1, Len(fixed))
    IN  PadStart(NumToString(hours), 2) \o ":" \o PadStart(NumToString(minutes), 2)
        \o ":" \o PadStart(secs, 6)

\* convertToSRT: the blocks of the cues from index (0-based) on
RECURSIVE convertToSRTFrom(_, _)
convertToSRTFrom(es, index) ==
    IF index >= Len(es) THEN ""
    ELSE LET entry == es[index + 1]
             startSeconds == timeToSeconds(entry.startTime)
             endSeconds == timeToSeconds(entry.endTime)
         IN  NatToString(index + 1) \o "\n"
             \o secondsToSRTTime(startSeconds) \o " --> " \o secondsToSRTTime(endSeconds)
             \o "\n"
             \o entry.text \o "\n\n"
             \o convertToSRTFrom(es, index + 1)

convertToSRT(es) == Trim(convertToSRTFrom(es, 0))

\* convertToTXT
convertToTXT(es) == Join([k \in 1..Len(es) |-> es[k].text], "\n\n")

\* convertToASS: the template literal that opens the document
AssHeader ==
    "[Script Info]\n"
    \o "Title: Converted Subtitles\n"
    \o "ScriptType: v4.00+\n"
    \o "\n"
    \o "[V4+ Styles]\n"
    \o "Format: Name, Fontname, Fontsize, PrimaryColour, SecondaryColour, OutlineColour, BackColour, Bold, Italic, Underline, StrikeOut, ScaleX, ScaleY, Spacing, Angle, BorderStyle, Outline, Shadow, Alignment, MarginL, MarginR, MarginV, Encoding\n"
    \o "Style: Default,Arial,20,&H00FFFFFF,&H000000FF,&H00000000,&H00000000,0,0,0,0,100,100,0,0,1,2,0,2,10,10,10,1\n"
    \o "\n"
    \o "[Events]\n"
    \o "Format: Layer, Start, End, Style, Name, MarginL, MarginR, MarginV, Effect, Text\n"

\* convertToASS.convertTime
convertTime(time) ==
    LET seconds == timeToSeconds(time)
        h == NumFloor(NumDivInt(seconds, 3600))
        m == NumFloor(NumDivInt(NumModInt(seconds, 3600), 60))
        s == toFixed(NumModInt(seconds, 60), 2)
    IN  NumToString(h) \o ":" \o PadStart(NumToString(m), 2) \o ":" \o PadStart(s, 5)

RECURSIVE convertToASSFrom(_, _)
convertToASSFrom(es, index) ==
    IF index >= Len(es) THEN ""
    ELSE LET entry == es[index + 1]
         IN  "Dialogue: 0," \o convertTime(entry.startTime) \o ","
             \o convertTime(entry.endTime) \o ",Default,,0,0,0,," \o entry.text \o "\n"
             \o convertToASSFrom(es, index + 1)

convertToASS(es) == AssHeader \o convertToASSFrom(es, 0)

\* <<startTime, endTime>> of the cues of the documents that are downloaded
DownloadTimes ==
    {<<"00:00:00.000", "00:00:01.500">>,
     <<"00:01:01.001", "00:01:02.250">>,
     <<"01:00:59.990", "01:01:00.004">>,
     <<"00:00:59.996", "00:01:00.000">>,
     <<"00:00:05.000", "">>,
     <<"00:07.000", "00:00:08.000">>}
\* <<label, text>> of those cues; an empty label is a block without id line
DownloadLabelled == {<<"", "hello">>, <<"7", "a b">>}

DownloadBlocks ==
    {Block(b[1], t[1] \o " --> " \o t[2], b[2]) : t \in DownloadTimes, b \in DownloadLabelled}

\* The documents at subtitlesUrl
DownloadDocs ==
    {"WEBVTT\n\n" \o Join(bs, "\n\n") : bs \in SeqsUpTo(DownloadBlocks, MaxCues)}

InitDownload ==
    /\ IdleSeg /\ results = <<>> /\ IdleServer
    /\ IdleApp
    /\ parser = "converter" /\ cpc = "load" /\ input = <<>>
    /\ doc \in DownloadDocs
    /\ lines = <<>> /\ li = 1 /\ state = 0
    /\ currentEntry = EmptyEntry /\ textBuffer = <<>> /\ textSrc = <<>> /\ entries = <<>>
    /\ pendingSrc = NoSrc /\ emitLog = <<>> /\ visits = <<>>

\* downloadSubtitles, case 'srt'
DownloadSRT ==
    /\ cpc = "done" /\ parser = "converter"
    /\ download' = [format |-> "srt", content |-> convertToSRT(entries)]
    /\ cpc' = "downloaded"
    /\ UNCHANGED <<saveVars, copyVars, segVars, parser, input, doc, lines, li, state, currentEntry,
                   textBuffer, textSrc, entries, pendingSrc, emitLog, visits>>
    /\ UNCHANGED <<subtitles, editingId, editForm, now, opCount, opened, lastOp>>

\* downloadSubtitles, case 'txt'
DownloadTXT ==
    /\ cpc = "done" /\ parser = "converter"
    /\ download' = [format |-> "txt", content |-> convertToTXT(entries)]
    /\ cpc' = "downloaded"
    /\ UNCHANGED <<saveVars, copyVars, segVars, parser, input, doc, lines, li, state, currentEntry,
                   textBuffer, textSrc, entries, pendingSrc, emitLog, visits>>
    /\ UNCHANGED <<subtitles, editingId, editForm, now, opCount, opened, lastOp>>

\* downloadSubtitles, case 'ass'
DownloadASS ==
    /\ cpc = "done" /\ parser = "converter"
    /\ download' = [format |-> "ass", content |-> convertToASS(entries)]
    /\ cpc' = "downloaded"
    /\ UNCHANGED <<saveVars, copyVars, segVars, parser, input, doc, lines, li, state, currentEntry,
                   textBuffer, textSrc, entries, pendingSrc, emitLog, visits>>
    /\ UNCHANGED <<subtitles, editingId, editForm, now, opCount, opened, lastOp>>

\* downloadSubtitles, case 'vtt' and default
DownloadVTT ==
    /\ cpc = "done" /\ parser = "converter"
    /\ download' = [format |-> "vtt", content |-> doc]
    /\ cpc' = "downloaded"
    /\ UNCHANGED <<saveVars, copyVars, segVars, parser, input, doc, lines, li, state, currentEntry,
                   textBuffer, textSrc, entries, pendingSrc, emitLog, visits>>
    /\ UNCHANGED <<subtitles, editingId, editForm, now, opCount, opened, lastOp>>

NextDownload ==
    \/ Load \/ ParseHeader \/ ParseBlank \/ ParseIdOrTimestamp \/ ParseTimestamp
    \/ ParseText \/ ParseEnd
    \/ DownloadSRT \/ DownloadTXT \/ DownloadASS \/ DownloadVTT

\* subtitle-converter.ts: downloadSubtitles
SpecDownload == InitDownload /\ [][NextDownload]_vars

(***************************************************************************)
(* Properties of the download (checked under SpecDownload)                 *)
(***************************************************************************)
\* timeStr.split(':') has three fields
ThreeFields(ts) == Len(Split(ts, ":")) = 3

OutLines == Split(download.content, "\n")

\* The timing line of the i-th block of an SRT document whose texts have one
\* line each, as <<start, end>>
SrtTimes(i) == Split(OutLines[4 * (i - 1) + 2], " --> ")

AssHeaderLines == Len(Split(AssHeader, "\n")) - 1

\* The fields of the i-th Dialogue line of an ASS document
AssFields(i) == Split(OutLines[AssHeaderLines + i], ",")

\* C14: a timestamp that does not have three colon-separated fields is
\* unknown, and the converters do not write it as if it were the time zero:
\* the SRT timing line of such a cue does not show 00:00:00,000 for it and the
\* ASS Dialogue line does not show 0:00:00.00 for it.
C14_UnknownNotWrittenAsZero ==
    /\ (cpc = "downloaded" /\ download.format = "srt") =>
          \A i \in 1..Len(entries) :
             /\ ~ThreeFields(entries[i].startTime) => SrtTimes(i)[1] # "00:00:00,000"
             /\ ~ThreeFields(entries[i].endTime) => SrtTimes(i)[2] # "00:00:00,000"
    /\ (cpc = "downloaded" /\ download.format = "ass") =>
          \A i \in 1..Len(entries) :
             /\ ~ThreeFields(entries[i].startTime) => AssFields(i)[2] # "0:00:00.00"
             /\ ~ThreeFields(entries[i].endTime) => AssFields(i)[3] # "0:00:00.00"

\* A timestamp of the shape HH:MM:SS.mmm with minutes and seconds below 60
WellFormedTs(ts) ==
    /\ Len(ts) = 12
    /\ At(ts, 3) = ":" /\ At(ts, 6) = ":" /\ At(ts, 9) = "."
    /\ \A k \in {1, 2, 4, 5, 7, 8, 10, 11, 12} : At(ts, k) \in Digits
    /\ DigitsToNat(SubSeq(ts, 4, 5)) < 60
    /\ DigitsToNat(SubSeq(ts, 7, 8)) < 60

\* HH:MM:SS.mmm with ',' for the '.'
CommaTime(ts) == SubSeq(ts, 1, 8) \o "," \o SubSeq(ts, 10, 12)

\* C15: convertToSRT writes, for the i-th cue, the index line i, the timing
\* line whose timestamps are the cue's HH:MM:SS.mmm timestamps with ',' as the
\* decimal separator, then the text; blocks are separated by one blank line,
\* the document has no header line and does not end with a blank line.
C15_SrtBlocks ==
    (cpc = "downloaded" /\ download.format = "srt") =>
        LET n == Len(entries)
        IN  /\ n = 0 => download.content = ""
            /\ n > 0 => Len(OutLines) = 4 * n - 1
            /\ \A i \in 1..n :
                  /\ OutLines[4 * (i - 1) + 1] = NatToString(i)
                  /\ Len(SrtTimes(i)) = 2
                  /\ WellFormedTs(entries[i].startTime) =>
                        SrtTimes(i)[1] = CommaTime(entries[i].startTime)
                  /\ WellFormedTs(entries[i].endTime) =>
                        SrtTimes(i)[2] = CommaTime(entries[i].endTime)
                  /\ OutLines[4 * (i - 1) + 3] = entries[i].text
                  /\ i < n => OutLines[4 * i] = ""

\* an SRT download of two cues, the second labelled 7 in the document and an
\* hour into the programme
C15_Witness ==
    /\ cpc = "downloaded" /\ download.format = "srt"
    /\ Len(entries) = 2
    /\ WellFormedTs(entries[1].startTime) /\ WellFormedTs(entries[1].endTime)
    /\ entries[2].startTime = "01:00:59.990" /\ entries[2].endTime = "01:01:00.004"
    /\ entries[2].text = "a b"

\* out is ts rewritten as H:MM:SS.cc: the hour without padding, the minutes and
\* seconds of ts, and the centiseconds that its milliseconds truncate or round to
SameInstantCs(ts, out) ==
    LET p == Split(out, ":")
    IN  /\ Len(p) = 3
        /\ p[1] = NatToString(DigitsToNat(SubSeq(ts, 1, 2)))
        /\ p[2] = SubSeq(ts, 4, 5)
        /\ Len(p[3]) = 5
        /\ SubSeq(p[3], 1, 3) = SubSeq(ts, 7, 9)
        /\ \A k \in {4, 5} : At(p[3], k) \in Digits
        /\ LET ms == DigitsToNat(SubSeq(ts, 10, 12))
               cc == DigitsToNat(SubSeq(p[3], 4, 5))
           IN  cc * 10 - 5 <= ms /\ ms < cc * 10 + 10

\* C16: convertToASS emits the fixed header and then exactly one Dialogue line
\* per cue, in cue order, whose start and end are the cue's HH:MM:SS.mmm
\* timestamps rewritten as H:MM:SS.cc of the same instant, with the style
\* Default and the cue's text.
C16_AssDialogues ==
    (cpc = "downloaded" /\ download.format = "ass") =>
        LET n == Len(entries)
        IN  /\ SubSeq(download.content, 1, Len(AssHeader)) = AssHeader
            /\ Len(OutLines) = AssHeaderLines + n + 1
            /\ OutLines[AssHeaderLines + n + 1] = ""
            /\ \A i \in 1..n :
                  LET f == AssFields(i)
                  IN  /\ Len(f) >= 10
                      /\ OutLines[AssHeaderLines + i] =
                            "Dialogue: 0," \o f[2] \o "," \o f[3] \o ",Default,,0,0,0,,"
                            \o entries[i].text
                      /\ WellFormedTs(entries[i].startTime) =>
                            SameInstantCs(entries[i].startTime, f[2])
                      /\ WellFormedTs(entries[i].endTime) =>
                            SameInstantCs(entries[i].endTime, f[3])

(***************************************************************************)
(* Properties of the splitter's lines and times (checked under SpecSeg)    *)
(***************************************************************************)
\* The pieces of a split segment that become cues: the whole sanitized text
\* when it has no punctuation boundary, its non-empty trimmed fragments
\* otherwise
Units(segment) ==
    LET raw == SplitPunct(SanitizedOf(segment))
    IN  IF Len(raw) = 1 THEN <<SanitizedOf(segment)>>
        ELSE SelectSeq([j \in 1..Len(raw) |-> Trim(raw[j])], LAMBDA t : t # "")

\* The last of the cue texts from position a on that make up unit u, 0 when
\* they never do
UnitEnd(texts, u, a) ==
    LET S == {b \in a..Len(texts) : Join(SubSeq(texts, a, b), " ") = u}
    IN  IF S = {} THEN 0 ELSE Min(S)

FirstWord(s) == Split(s, " ")[1]

\* The cue texts from position a on are the lines of the units, and within each
\* unit no line was closed while the next word still fit and no line of more
\* than one word is longer than maxCharsPerLine
RECURSIVE WrapOk(_, _, _)
WrapOk(texts, units, a) ==
    IF units = <<>> THEN a = Len(texts) + 1
    ELSE LET b == UnitEnd(texts, Head(units), a)
         IN  /\ b # 0
             /\ \A i \in a..(b - 1) :
                   Len(texts[i]) + 1 + Len(FirstWord(texts[i + 1])) > maxCharsPerLine
             /\ \A i \in a..b :
                   Len(texts[i]) <= maxCharsPerLine \/ ~Includes(texts[i], " ")
             /\ WrapOk(texts, Tail(units), b + 1)

\* C17: in the word-wrapped splitter a line is closed exactly when the next
\* word, with its separating space, would make it longer than 60 characters:
\* for every split segment, no line of a unit is followed by a word that would
\* still have fitted, and every line is at most 60 characters unless it is a
\* single word.
C17_ClosedOnlyWhenFull ==
    \A k \in Visited :
        path[k] = "split" => WrapOk(CueTextsOf(k), Units(segments[k]), 1)

\* C18: every cue of a split segment lasts its own text length times the
\* segment's time per character (segment duration / sanitized text length).
C18_DurationProportional ==
    \A k \in Visited :
        path[k] = "split" =>
            LET timePerCharacter ==
                    RDivInt(Duration(segments[k]), Len(SanitizedOf(segments[k])))
                cs == CuesOfSeg(k)
            IN  \A j \in 1..Len(cs) :
                    RSub(cs[j].end, cs[j].start)
                        = RMulInt(timePerCharacter, Len(cs[j].text))

\* C19: the cues of one split segment are laid out contiguously.  The first
\* cue starts at the segment's start and each later cue starts exactly at the
\* end of the cue before it, also where a word-wrapped fragment is followed by
\* the next fragment.
C19_Contiguous ==
    \A k \in Visited :
        path[k] = "split" =>
            LET cs == CuesOfSeg(k)
            IN  /\ Len(cs) > 0 => cs[1].start = segments[k].start
                /\ \A j \in 2..Len(cs) : cs[j].start = cs[j - 1].end

\* a split segment whose first fragment was word-wrapped into two lines and is
\* followed by another fragment
C19_Witness ==
    \E k \in Visited :
        /\ path[k] = "split"
        /\ Len(Units(segments[k])) = 2
        /\ Len(CuesOfSeg(k)) = 3
        /\ UnitEnd(CueTextsOf(k), Units(segments[k])[1], 1) = 2
        /\ CuesOfSeg(k)[3].text = Units(segments[k])[2]

\* end > start > 0 and each start >= the previous end
OrderedInput ==
    /\ \A k \in 1..Len(segments) :
          /\ RLess(RInt(0), segments[k].start)
          /\ RLess(segments[k].start, segments[k].end)
    /\ \A k \in 2..Len(segments) : RLeq(segments[k - 1].end, segments[k].start)

\* C20: for time-ordered, non-overlapping input segments the cues of the
\* document are ordered by non-decreasing start, every cue has start <= end,
\* and no cue starts before the cue ahead of it has ended.
C20_DocumentOrdered ==
    OrderedInput =>
        /\ \A j \in 1..Len(cues) : RLeq(cues[j].start, cues[j].end)
        /\ \A j \in 2..Len(cues) :
              /\ RLeq(cues[j - 1].start, cues[j].start)
              /\ RLeq(cues[j - 1].end, cues[j].start)

\* a finished document of two ordered segments that were both split
C20_Witness ==
    /\ pc = "done" /\ OrderedInput
    /\ path = <<"split", "split">>
    /\ Len(cues) >= 6

(***************************************************************************)
(* The fallback document (createBasicVTT)                                  *)
(***************************************************************************)
\* C21: with no segments, a fullText of n whitespace-separated words gives
\* ceil(n/7) cues; cue k (from 0) holds words 7k..7k+6 in order, starts at
\* 100*7k/n and ends at min(100*(7k+7)/n, 100) seconds, so the cues are
\* contiguous and together cover exactly [0, 100].
C21_FallbackChunks ==
    (pc = "done" /\ segments = <<>>)
    => LET w == Words(fullText)
           n == Len(w)
           First(k) == chunkSize * (k - 1)
           Last(k) == IF chunkSize * k < n THEN chunkSize * k ELSE n
           Scaled(k) == Rat(BasicTotal * chunkSize * k, n)
       IN  /\ Len(cues) = (n + chunkSize - 1) \div chunkSize
           /\ \A k \in 1..Len(cues) :
                /\ cues[k].text = Join(SubSeq(w, First(k) + 1, Last(k)), " ")
                /\ cues[k].start = Rat(BasicTotal * First(k), n)
                /\ cues[k].end = IF RLess(Scaled(k), RInt(BasicTotal))
                                 THEN Scaled(k) ELSE RInt(BasicTotal)
           /\ \A k \in 1..(Len(cues) - 1) : cues[k].end = cues[k + 1].start
           /\ n > 0 => /\ cues[1].start = RInt(0)
                       /\ cues[Len(cues)].end = RInt(BasicTotal)

(***************************************************************************)
(* Emission points of parseVTT (checked under SpecConverter)               *)
(***************************************************************************)
\* the start time written on timestamp line n
StartOn(n) == Trim(Split(lines[n], "-->")[1])

\* C22: the parser emits a pending cue only at a blank line, at a timestamp
\* line met in ExpectText, or at end of input, and only if the cue has a start
\* timestamp and at least one text line (a plain line between its timestamp
\* line and the point of emission); each cue block is emitted at most once
\* and the emitted cues appear in document order.
C22_EmissionPoints ==
    cpc \in {"parse", "done"} =>
        /\ Len(entries) = Len(emitLog)
        /\ \A k \in 1..Len(emitLog) :
              LET r == emitLog[k]
              IN  /\ r.ts \in 1..Len(lines) /\ HasArrow(r.ts) /\ StartOn(r.ts) # ""
                  /\ r.at \in (r.ts + 1)..(Len(lines) + 1)
                  /\ \/ r.cause = "blank" /\ r.at <= Len(lines) /\ IsBlank(r.at)
                     \/ /\ r.cause = "timestamp" /\ r.at <= Len(lines)
                        /\ HasArrow(r.at) /\ InTextPart(r.at)
                     \/ r.cause = "eof" /\ r.at = Len(lines) + 1 /\ cpc = "done"
                  /\ \E n \in (r.ts + 1)..(r.at - 1) : IsPlain(n)
        /\ \A j, k \in 1..Len(emitLog) : j < k => emitLog[j].ts < emitLog[k].ts

(***************************************************************************)
(* Label lines without a timestamp (checked under SpecEditor)              *)
(***************************************************************************)
\* line n is the header line at the start of the document
LeadingHeader(n) == IsHeader(n) /\ \A m \in 1..(n - 1) : IsBlank(m)

\* line n is a non-blank line without --> other than the leading header
RunLine(n) == ~IsBlank(n) /\ ~HasArrow(n) /\ ~LeadingHeader(n)

\* the run of consecutive such lines that ends directly before line t
RunBefore(t) == {n \in 1..(t - 1) : \A m \in n..(t - 1) : RunLine(m)}

\* the run before line t is met outside a cue's text: it starts the document
\* or follows a blank line or the leading header
RunOfLabels(t) ==
    /\ RunBefore(t) # {}
    /\ LET a == Min(RunBefore(t))
       IN  a = 1 \/ IsBlank(a - 1) \/ LeadingHeader(a - 1)

\* the lines whose text went into the k-th emitted cue
TextLinesOf(k) == {emitLog[k].text[j] : j \in 1..Len(emitLog[k].text)}

\* C23: in ExpectTimestamp a line without --> discards the pending partial cue
\* and is read again in ExpectIdOrTimestamp, so for a run of consecutive
\* non-blank lines without --> followed by a timestamp line, the emitted cue
\* carries the last line of the run as its label and none of the run's lines
\* becomes cue text.
C23_LastLineIsLabel ==
    cpc = "done" =>
        \A k \in 1..Len(entries) :
            LET t == emitLog[k].ts
            IN  RunOfLabels(t)
                => /\ parser = "editor" => entries[k].id = Trim(lines[t - 1])
                   /\ \A j \in 1..Len(entries) : TextLinesOf(j) \cap RunBefore(t) = {}

(***************************************************************************)
(* Cue text (checked under SpecConverter)                                  *)
(***************************************************************************)
\* the line that ends the block of timestamp line t: the next blank line or
\* timestamp line, or the end of input
BlockEnd(t) ==
    Min({n \in (t + 1)..Len(lines) : IsBlank(n) \/ HasArrow(n)} \cup {Len(lines) + 1})

\* the lines of the block of timestamp line t after the timestamp line, in order
BlockLines(t) == [j \in 1..(BlockEnd(t) - t - 1) |-> t + j]

\* the trimmed text of the lines ns
TrimmedLines(ns) == [j \in 1..Len(ns) |-> Trim(lines[ns[j]])]

\* C24: in ExpectText every non-blank line that does not contain --> is
\* appended to the pending cue's text, so an emitted cue's text is the
\* single-space join of all such lines of its block in order; only a header
\* line at the start of the document is skipped.
C24_TextIsJoinOfBlock ==
    cpc = "done" =>
        \A k \in 1..Len(entries) :
            /\ emitLog[k].text = BlockLines(emitLog[k].ts)
            /\ entries[k].text = Join(TrimmedLines(BlockLines(emitLog[k].ts)), " ")

\* C25: an emitted cue's text contains only lines that lie after that cue's own
\* timestamp line and before the next blank line or timestamp line; text
\* lines of a block that is dropped as malformed (its timestamp line has an
\* empty start) never leak into the text of a later cue.
C25_NoTextLeak ==
    \A k \in 1..Len(emitLog) :
        TextLinesOf(k) \subseteq (emitLog[k].ts + 1)..(BlockEnd(emitLog[k].ts) - 1)

(***************************************************************************)
(* Ids of the parsed cues (checked under SpecSession)                      *)
(***************************************************************************)
\* C26: the ids that the editor's parser assigns are pairwise distinct within
\* one parsed document, for every mix of labelled and unlabelled cue blocks:
\* an unlabelled cue's defaulted index never collides with another cue's label.
C26_IdsDistinct ==
    (parser = "editor" /\ cpc \in {"parse", "done"})
    => \A j, k \in 1..Len(entries) : j < k => entries[j].id # entries[k].id

(***************************************************************************)
(* Saving without edits: the parsed cues are serialized by generateVTT      *)
(* (getSubtitlesContent), stored, and the stored document is fetched and    *)
(* parsed again                                                             *)
(***************************************************************************)
ResaveDocs == DocPool \cup SessionDocs

InitResave ==
    /\ IdleSeg /\ results = <<>> /\ IdleServer
    /\ parser = "editor" /\ cpc = "load" /\ input = <<>>
    /\ doc \in ResaveDocs
    /\ lines = <<>> /\ li = 1 /\ state = 0
    /\ currentEntry = EmptyEntry /\ textBuffer = <<>> /\ textSrc = <<>> /\ entries = <<>>
    /\ pendingSrc = NoSrc /\ emitLog = <<>> /\ visits = <<>>
    /\ IdleApp

\* setSubtitles(parseVTT(vttContent)), then getSubtitlesContent() and the fetch
\* effect on the saved document: parseVTT(generateVTT(subtitles))
Resave ==
    /\ cpc = "done" /\ parser = "editor" /\ lastOp.op = "none"
    /\ subtitles' = entries
    /\ input' = entries
    /\ doc' = generateVTT(entries)
    /\ lines' = Split(generateVTT(entries), "\n")
    /\ visits' = [k \in 1..Len(lines') |-> 0]
    /\ li' = 1 /\ state' = 0
    /\ currentEntry' = EmptyEntry /\ textBuffer' = <<>> /\ textSrc' = <<>>
    /\ entries' = <<>> /\ pendingSrc' = NoSrc /\ emitLog' = <<>>
    /\ cpc' = "parse"
    /\ lastOp' = [op |-> "resave", pos |-> 0, before |-> entries]
    /\ UNCHANGED <<saveVars, copyVars, segVars, parser, download, editingId, editForm, now, opCount, opened>>

NextResave ==
    \/ Load \/ ParseHeader \/ ParseBlank \/ ParseIdOrTimestamp \/ ParseTimestamp
    \/ ParseText \/ ParseEnd \/ Resave

\* SubtitleEditor.tsx: a document is loaded, saved without edits and loaded again
SpecResave == InitResave /\ [][NextResave]_vars

\* C27: re-saving is stable.  For every document d, parsing the editor's
\* serialization of parse(d) yields exactly parse(d) again, with the same ids,
\* timestamps and texts: no cue is changed, dropped or relabelled.
C27_ResaveStable ==
    (cpc = "done" /\ lastOp.op = "resave") => entries = lastOp.before

\* A document with two cues, the first without a label line (its id is the
\* defaulted "0"), has been saved and parsed again.
C27_Witness ==
    /\ cpc = "done" /\ lastOp.op = "resave"
    /\ Len(lastOp.before) = 2 /\ lastOp.before[1].id = "0"
    /\ entries = lastOp.before

(***************************************************************************)
(* The three copies of parseVTT on one document: downloadSubtitles          *)
(* (subtitle-converter.ts), SubtitleEditor and SubtitlesViewer each fetch   *)
(* the same subtitlesUrl and parse what they get                            *)
(***************************************************************************)
\* Documents given to all three copies: up to MaxLines lines, one kind of
\* plain line
CopyDocs == {Join(ls, "\n") : ls \in SeqsUpTo(LinePool \ {" x"}, MaxLines)}

InitCopies ==
    /\ IdleSeg /\ results = <<>> /\ IdleServer
    /\ parser = "converter" /\ cpc = "load" /\ input = <<>>
    /\ doc \in CopyDocs
    /\ lines = <<>> /\ li = 1 /\ state = 0
    /\ currentEntry = EmptyEntry /\ textBuffer = <<>> /\ textSrc = <<>> /\ entries = <<>>
    /\ pendingSrc = NoSrc /\ emitLog = <<>> /\ visits = <<>>
    /\ IdleApp

\* The copy has returned; the next component fetches the same document
NextCopy ==
    /\ cpc = "done" /\ parser \in {"converter", "editor"} /\ input = <<>>
    /\ results' = Append(results, [copy |-> parser, entries |-> entries])
    /\ parser' = IF parser = "converter" THEN "editor" ELSE "viewer"
    /\ cpc' = "load"
    /\ lines' = <<>> /\ visits' = <<>> /\ li' = 1 /\ state' = 0
    /\ currentEntry' = EmptyEntry /\ textBuffer' = <<>> /\ textSrc' = <<>>
    /\ entries' = <<>> /\ pendingSrc' = NoSrc /\ emitLog' = <<>>
    /\ UNCHANGED <<saveVars, segVars, appVars, input, doc>>

NextCopies ==
    \/ Load \/ ParseHeader \/ ParseBlank \/ ParseIdOrTimestamp \/ ParseTimestamp
    \/ ParseText \/ ParseEnd \/ NextCopy

SpecCopies == InitCopies /\ [][NextCopies]_vars

\* C28: the three copies of the parser emit the same sequence of (startTime,
\* endTime, text) triples for every document, and the editor and viewer copies
\* assign the same id to every cue.
C28_CopiesAgree ==
    cpc = "done" =>
        /\ \A r \in 1..Len(results) : Triples(results[r].entries) = Triples(entries)
        /\ \A r \in 1..Len(results) :
              (parser = "viewer" /\ results[r].copy = "editor") => results[r].entries = entries

\* All three copies have parsed a document with two cues whose second timestamp
\* line was met in ExpectText, where the viewer's copy looks for an id.
C28_Witness ==
    /\ cpc = "done" /\ parser = "viewer" /\ Len(results) = 2
    /\ Len(entries) = 2 /\ emitLog[1].cause = "timestamp"
    /\ results[2].copy = "editor" /\ results[2].entries = entries

(***************************************************************************)
(* Fields of the written timestamps (checked under SpecDownload)           *)
(***************************************************************************)
\* a minutes or seconds field: it starts with two digits that read below 60
Below60(field) ==
    /\ Len(field) >= 2
    /\ At(field, 1) \in Digits /\ At(field, 2) \in Digits
    /\ (Len(field) > 2 => At(field, 3) \notin Digits)
    /\ DigitsToNat(SubSeq(field, 1, 2)) < 60

\* out has three colon-separated fields, minutes and seconds below 60
FieldsBelow60(out) ==
    LET p == Split(out, ":")
    IN  Len(p) = 3 /\ Below60(p[2]) /\ Below60(p[3])

\* C29: for every valid HH:MM:SS.mmm input with minutes and seconds below 60,
\* the timestamps written by convertToASS and convertToSRT have a seconds
\* field below 60 and a minutes field below 60: rounding to centiseconds or
\* milliseconds never produces a seconds field of 60.
C29_FieldsBelow60 ==
    /\ (cpc = "downloaded" /\ download.format = "srt") =>
          \A i \in 1..Len(entries) :
             /\ WellFormedTs(entries[i].startTime) => FieldsBelow60(SrtTimes(i)[1])
             /\ WellFormedTs(entries[i].endTime) => FieldsBelow60(SrtTimes(i)[2])
    /\ (cpc = "downloaded" /\ download.format = "ass") =>
          \A i \in 1..Len(entries) :
             /\ WellFormedTs(entries[i].startTime) => FieldsBelow60(AssFields(i)[2])
             /\ WellFormedTs(entries[i].endTime) => FieldsBelow60(AssFields(i)[3])

(***************************************************************************)
(* api/subtitles/save: POST requests handled concurrently.  A handler runs  *)
(* until an await and then lets the others run, so the steps of different   *)
(* requests interleave; the clock moves on between any two steps or stays.  *)
(***************************************************************************)
MaxRequests == 2
MaxTicks == 2
ClockStart == 1000000000

\* The bodies posted: vttContent of two editors, and a body without content
BodyPool == {"", "WEBVTT\n\n1\n" \o TsLine \o "\nhello\n\n",
             "WEBVTT\n\n1\n" \o TsLine \o "\nworld\n\n"}

NewRequest(body) ==
    [pc |-> "received", vttContent |-> body, timestamp |-> 0, subtitlesUrl |-> "",
     served |-> None]

\* everything but the clock, the requests and the files
besideSave == <<segVars, codecVars, copyVars, download, subtitles, editingId,
                editForm, opCount, opened, lastOp>>

InitSave ==
    /\ IdleSeg /\ results = <<>>
    /\ IdleCodec
    /\ download = None /\ subtitles = <<>> /\ editingId = None
    /\ editForm = EmptyForm /\ now = ClockStart /\ opCount = 0 /\ opened = 0
    /\ lastOp = NoOp
    /\ requests \in {[k \in 1..Len(bodies) |-> NewRequest(bodies[k])] :
                        bodies \in SeqsUpTo(BodyPool, MaxRequests) \ {<<>>}}
    /\ files = <<>>

\* Date.now() moves on
Tick ==
    /\ now < ClockStart + MaxTicks
    /\ \E r \in 1..Len(requests) : requests[r].pc \notin {"rejected", "generated"}
    /\ now' = now + 1
    /\ UNCHANGED <<requests, files, besideSave>>

\* const { vttContent } = await request.json(); if (!vttContent) return 400
ReadBody ==
    \E r \in 1..Len(requests) :
        /\ requests[r].pc = "received"
        /\ requests' = [requests EXCEPT ![r].pc =
                           IF requests[r].vttContent = "" THEN "rejected" ELSE "accepted"]
        /\ UNCHANGED <<now, files, besideSave>>

\* const timestamp = Date.now(); const filename = `subtitles_${timestamp}.vtt`
TakeTimestamp ==
    \E r \in 1..Len(requests) :
        /\ requests[r].pc = "accepted"
        /\ requests' = [requests EXCEPT ![r].pc = "named", ![r].timestamp = now]
        /\ UNCHANGED <<now, files, besideSave>>

filename(timestamp) == "subtitles_" \o NatToString(timestamp) \o ".vtt"

\* await writeFile(filepath, vttContent, 'utf8'): the file is created or replaced
WriteFile ==
    \E r \in 1..Len(requests) :
        /\ requests[r].pc = "named"
        /\ files' = [n \in DOMAIN files \cup {filename(requests[r].timestamp)} |->
                        IF n = filename(requests[r].timestamp)
                        THEN requests[r].vttContent ELSE files[n]]
        /\ requests' = [requests EXCEPT ![r].pc = "written"]
        /\ UNCHANGED <<now, besideSave>>

\* return NextResponse.json({ success: true, subtitlesUrl, ... })
Respond ==
    \E r \in 1..Len(requests) :
        /\ requests[r].pc = "written"
        /\ requests' = [requests EXCEPT
                           ![r].pc = "responded",
                           ![r].subtitlesUrl = "/uploads/" \o filename(requests[r].timestamp)]
        /\ UNCHANGED <<now, files, besideSave>>

\* api/generate, existingSubtitlesUrl.startsWith('/uploads/'): the client hands
\* the URL it received to the generator, which reads the file behind it
ReadSaved ==
    \E r \in 1..Len(requests) :
        /\ requests[r].pc = "responded"
        /\ requests' = [requests EXCEPT
                           ![r].pc = "generated",
                           ![r].served = Some(files[SubSeq(requests[r].subtitlesUrl,
                                                           Len("/uploads/") + 1,
                                                           Len(requests[r].subtitlesUrl))])]
        /\ UNCHANGED <<now, files, besideSave>>

NextSave == Tick \/ ReadBody \/ TakeTimestamp \/ WriteFile \/ Respond \/ ReadSaved

SpecSave == InitSave /\ [][NextSave]_vars

\* the requests that have been answered with a subtitlesUrl
Answered == {r \in 1..Len(requests) : requests[r].pc \in {"responded", "generated"}}

\* C30: save requests handled concurrently never receive the same
\* subtitlesUrl, and the file behind each returned URL holds the content that
\* request submitted: one user's saved subtitles are never overwritten by or
\* served to another request.
C30_SavesIsolated ==
    /\ \A r, q \in Answered : r # q => requests[r].subtitlesUrl # requests[q].subtitlesUrl
    /\ \A r \in Answered :
          files[filename(requests[r].timestamp)] = requests[r].vttContent
    /\ \A r \in 1..Len(requests) :
          requests[r].pc = "generated" => requests[r].served = Some(requests[r].vttContent)

=============================================================================
